---------------------------- MODULE Spec2Model ----------------------------
(***************************************************************************)
(* The conversation interrogation engine of gonzobot:                      *)
(*   src/phases/interrogate.py  interrogate                                *)
(*   src/services/browser.py    DemeterAIBrowser, run_conversation         *)
(*                                                                         *)
(* interrogate runs the planned conversations one after another; each      *)
(* conversation is one asyncio.run(run_conversation(...)), which opens a   *)
(* browser (async with DemeterAIBrowser), sends every question with        *)
(* send_message and closes the browser again.  The remote page is the      *)
(* environment: which selectors resolve, which page calls fail and what    *)
(* text the page shows are chosen nondeterministically.                    *)
(*                                                                         *)
(* Texts are abstract values (already stripped); a question is a natural   *)
(* number, 0 standing for the empty string.                                *)
(***************************************************************************)
EXTENDS Integers, Sequences, FiniteSets, TLC

(* ------------------------------ bounds -------------------------------- *)

\* most questions (opening questions and follow-ups) in the plans of a run
MaxQuestions == 3

\* number of distinct texts the page can show
MaxText == 2

\* most plans handed to interrogate: each has its opening question
MaxPlans == MaxQuestions

\* most follow-ups of one plan
MaxFollowUps == MaxQuestions - 1

\* largest configured limit
MaxLimit == MaxQuestions

(* -------------------------- program constants ------------------------- *)

\* SELECTORS["chat_input"].split(", ") has three candidates
NumChatInput == 3

\* SELECTORS["send_button"].split(", ") has two candidates
NumSendButton == 2

\* response_selectors has five candidates
NumResponse == 5

\* reads of the response element that must agree before the text is taken
\* as complete: the one comparison new_text != response_text
required_stable_reads == 2

\* inner_text calls _wait_for_response makes at most
NumReads == 3

(* ------------------------------- values ------------------------------- *)

\* the empty question: `if not question` skips it
EmptyQuestion == 0

Texts == 1..MaxText

\* str(e) of the exceptions the page calls and send_message can raise
NoChatInput == "Could not find chat input field"
NoResponse == "Demeter AI did not respond"
PageError == "Error"
PageTimeout == "Timeout"
Cancelled == "CancelledError"

\* None, as a local that holds no element or no text
None == 0

Min(a, b) == IF a < b THEN a ELSE b

Max(a, b) == IF a > b THEN a ELSE b

\* Python's s[:n], a negative n counting from the end
PySliceTo(s, n) ==
    IF n >= 0 THEN SubSeq(s, 1, Min(n, Len(s)))
    ELSE SubSeq(s, 1, Max(Len(s) + n, 0))

VARIABLES
    config,              \* the configuration read from config.yaml
    conversation_plans,  \* the plans handed to interrogate
    ipc,                 \* interrogate: where it is
    plans_to_run,        \* interrogate: conversation_plans[:max_conversations]
    i,                   \* interrogate: the plan being run (1-based)
    exchanges,           \* interrogate: the questions built for plan i
    transcripts,         \* interrogate: the list it returns
    rpc,                 \* run_conversation: where it is
    j,                   \* run_conversation: the exchange being run (1-based)
    results,             \* run_conversation: the list it returns
    exc,                 \* the exception in flight, "none" when there is none
    browsers,            \* per conversation: the browser launched for it
    input_field,         \* send_message: candidate whose element was found
    send_button,         \* send_message: candidate whose element was found
    response_element,    \* _wait_for_response: candidate whose element was found
    acts,                \* page actions of the send_message call, up to its submit
    response_text,       \* send_message: the text it returns
    call,                \* a call of a page function taken on its own
    main                 \* orchestrator main: where it is, the phases it ran

vars == <<config, conversation_plans, ipc, plans_to_run, i, exchanges,
          transcripts, rpc, j, results, exc, browsers, input_field,
          send_button, response_element, acts, response_text, call, main>>

\* what interrogate is handed, and the caller that hands it over
inputVars == <<config, conversation_plans, main>>

interrogateVars == <<ipc, plans_to_run, i, exchanges, transcripts>>

sendVars == <<input_field, send_button, response_element, acts,
              response_text>>

\* what a step of run_conversation leaves alone
convVars == <<inputVars, interrogateVars, call>>

(* ------------------------------- inputs ------------------------------- *)

RECURSIVE Sum(_)
Sum(s) == IF s = <<>> THEN 0 ELSE Head(s) + Sum(Tail(s))

\* the numbers of follow-ups of the plans of a run
PlanShapes ==
    UNION { { fs \in [1..N -> 0..MaxFollowUps] : N + Sum(fs) <= MaxQuestions } :
              N \in 0..MaxPlans }

\* the n-th question of a plan (1 its opening question): question n, or the
\* empty question when n = e
Question(n, e) == IF n = e THEN EmptyQuestion ELSE n

\* plan lists: topic k for the k-th plan, as many follow-ups as its shape
\* says, the e-th question of every plan empty (e = 0: none)
PlanLists ==
    { [k \in 1..Len(fs) |->
          [topic |-> k,
           opening_question |-> Question(1, e),
           follow_ups |-> [n \in 1..fs[k] |-> Question(n + 1, e)]]] :
        fs \in PlanShapes, e \in 0..2 }

\* config.yaml: complete is FALSE when a key interrogate reads is missing,
\* and the limits are then of no account
Configs ==
    [complete : {TRUE},
     max_conversations_per_run : 0..MaxLimit,
     max_exchanges_per_conversation : 0..MaxLimit]
        \cup {[complete |-> FALSE,
               max_conversations_per_run |-> 0,
               max_exchanges_per_conversation |-> 0]}

\* a limit further above what it cuts than these cuts nothing either
LimitsInReach(cfg, plans) ==
    /\ cfg.max_conversations_per_run <= Len(plans) + 1
    /\ \A k \in 1..Len(plans) :
          cfg.max_exchanges_per_conversation <= Len(plans[k].follow_ups) + 2

NoBrowsers == [k \in 1..MaxPlans |-> "none"]

\* no send_message call is under way
NoSend ==
    /\ input_field = None
    /\ send_button = None
    /\ response_element = None
    /\ acts = <<>>
    /\ response_text = None

\* the run of interrogate takes no page function on its own
NoCall == [op |-> "none"]

\* interrogate has not started
NotStarted ==
    /\ ipc = "start"
    /\ plans_to_run = <<>>
    /\ i = 0
    /\ exchanges = <<>>
    /\ transcripts = <<>>
    /\ rpc = "idle"
    /\ j = 0
    /\ results = <<>>
    /\ exc = "none"
    /\ browsers = NoBrowsers
    /\ NoSend

\* the run of interrogate is taken without the phases around it
NoMain == [pc |-> "none"]

Init ==
    /\ conversation_plans \in PlanLists
    /\ config \in Configs
    /\ LimitsInReach(config, conversation_plans)
    /\ NotStarted
    /\ call = NoCall
    /\ main = NoMain

(* ----------------------------- interrogate ---------------------------- *)

RECURSIVE AsExchanges(_)
AsExchanges(qs) ==
    IF qs = <<>> THEN <<>>
    ELSE <<[question |-> Head(qs)]>> \o AsExchanges(Tail(qs))

\* interrogate.py 54-59: the opening question, then follow_ups[:max_exchanges-1]
BuildExchanges(plan, max_exchanges) ==
    <<[question |-> plan.opening_question]>>
        \o AsExchanges(PySliceTo(plan.follow_ups, max_exchanges - 1))

\* a variant whose conversation_id leaves the index out
TranscriptWithoutIndex(index, plan, completed_exchanges) ==
    [conversation_id |-> [index |-> 0, failed |-> FALSE],
     topic |-> plan.topic,
     exchanges |-> completed_exchanges]

\* interrogate.py 65-70: the transcript of a conversation that returned.
\* conversation_id is "conv_<second>_<i>", with "_FAILED" after it for a
\* conversation that raised; <second> has a fixed width and is left out:
\* all the conversations of a run finish within one clock second.
Transcript(index, plan, completed_exchanges) ==
    [conversation_id |-> [index |-> index, failed |-> FALSE],
     topic |-> plan.topic,
     exchanges |-> completed_exchanges]

\* a variant that records a conversation that raised without an exchange
StubWithoutExchange(index, plan, e) ==
    [conversation_id |-> [index |-> index, failed |-> TRUE],
     topic |-> plan.topic,
     exchanges |-> <<>>,
     error |-> e]

\* a variant that leaves the transcript of a conversation that raised unmarked
UnmarkedTranscript(index, plan, e) ==
    [conversation_id |-> [index |-> index, failed |-> FALSE],
     topic |-> plan.topic,
     exchanges |-> <<[question |-> plan.opening_question,
                      response |-> [kind |-> "FAILED", cause |-> e]]>>]

\* interrogate.py 78-84: the transcript of a conversation that raised
FailedTranscript(index, plan, e) ==
    [conversation_id |-> [index |-> index, failed |-> TRUE],
     topic |-> plan.topic,
     exchanges |-> <<[question |-> plan.opening_question,
                      response |-> [kind |-> "FAILED", cause |-> e]]>>,
     error |-> e]

\* a variant that runs every plan
AllPlans(plans, max_conversations) == plans

\* interrogate.py 44: conversation_plans[:max_conversations]
PlansToRun(plans, max_conversations) == PySliceTo(plans, max_conversations)

\* a variant that finds every key it reads
NeverMissing(cfg) == FALSE

\* interrogate.py 38-41: a key interrogate reads is missing: KeyError
Missing(cfg) == ~cfg.complete

\* interrogate.py 38-46: read the configuration, cut the plan list
ReadConfig ==
    /\ ipc = "start"
    /\ IF ~Missing(config)
       THEN /\ plans_to_run' =
                 PlansToRun(conversation_plans, config.max_conversations_per_run)
            /\ i' = 1
            /\ ipc' = "loop"
            /\ exc' = exc
       ELSE /\ ipc' = "raised"
            /\ exc' = "KeyError"
            /\ UNCHANGED <<plans_to_run, i>>
    /\ UNCHANGED <<inputVars, exchanges, transcripts, rpc, j, results,
                   browsers, sendVars, call>>

\* interrogate.py 48-63: build the exchanges of plan i, start its conversation
StartConversation ==
    /\ ipc = "loop"
    /\ i <= Len(plans_to_run)
    /\ exchanges' = BuildExchanges(plans_to_run[i],
                                   config.max_exchanges_per_conversation)
    /\ ipc' = "run"
    /\ rpc' = "enter"
    /\ results' = <<>>
    /\ j' = 0
    /\ UNCHANGED <<inputVars, plans_to_run, i, transcripts, exc, browsers,
                   sendVars, call>>

\* a variant that keeps only the new transcript
OnlyLatest(ts, t) == <<t>>

\* a variant that puts the new transcript first
Prepended(ts, t) == <<t>> \o ts

\* interrogate.py 72: transcripts.append
Appended(ts, t) == Append(ts, t)

\* interrogate.py 65-73: the conversation returned
AppendTranscript ==
    /\ ipc = "run"
    /\ rpc = "returned"
    /\ transcripts' = Appended(transcripts,
                               Transcript(i - 1, plans_to_run[i], results))
    /\ i' = i + 1
    /\ ipc' = "loop"
    /\ rpc' = "idle"
    /\ UNCHANGED <<inputVars, plans_to_run, exchanges, j, results, exc,
                   browsers, sendVars, call>>

\* interrogate.py 75-84: except Exception: the conversation raised
AppendFailed ==
    /\ ipc = "run"
    /\ rpc = "raised"
    /\ exc # Cancelled
    /\ transcripts' = Appended(transcripts,
                               FailedTranscript(i - 1, plans_to_run[i], exc))
    /\ exc' = "none"
    /\ i' = i + 1
    /\ ipc' = "loop"
    /\ rpc' = "idle"
    /\ UNCHANGED <<inputVars, plans_to_run, exchanges, j, results, browsers,
                   sendVars, call>>

\* interrogate.py 62-75: an interrupt is no Exception: it leaves interrogate
Interrupted ==
    /\ ipc = "run"
    /\ rpc = "raised"
    /\ exc = Cancelled
    /\ ipc' = "raised"
    /\ rpc' = "idle"
    /\ UNCHANGED <<inputVars, plans_to_run, i, exchanges, transcripts, j,
                   results, exc, browsers, sendVars, call>>

\* interrogate.py 86-87
Return ==
    /\ ipc = "loop"
    /\ i > Len(plans_to_run)
    /\ ipc' = "returned"
    /\ UNCHANGED <<inputVars, plans_to_run, i, exchanges, transcripts, rpc, j,
                   results, exc, browsers, sendVars, call>>

(* ------------------------- DemeterAIBrowser --------------------------- *)

\* browser.py 75-81, 91-97, 145-151: try candidates k..n in order, stop at
\* the first that resolves; tried counts the candidates tried.  An exception
\* in one candidate's wait, an interrupt included, is swallowed by the bare
\* except and reads as that candidate not resolving.
\* a variant that tries every candidate and keeps the last that resolves
LocateLast(k, n, resolves) ==
    LET hits == {c \in k..n : c \in resolves}
    IN  IF hits = {} THEN [element |-> None, tried |-> n]
        ELSE [element |-> CHOOSE c \in hits : \A d \in hits : d <= c,
              tried |-> n]

RECURSIVE LocateFrom(_, _, _)
LocateFrom(k, n, resolves) ==
    IF k > n THEN [element |-> None, tried |-> n]
    ELSE IF k \in resolves THEN [element |-> k, tried |-> k]
    ELSE LocateFrom(k + 1, n, resolves)

Locate(n, resolves) == LocateFrom(1, n, resolves)

\* the awaits of send_message outside its selector loops, in order: 1 fill,
\* 2 sleep(0.5), 3 click or press, 4 sleep(2); at most one of them raises,
\* ending the call: a page call a Playwright error or timeout, any of them
\* an interrupt
DispatchFaults ==
    {[at |-> 0, raises |-> "none"]}
        \cup {[at |-> k, raises |-> e] :
                k \in {1, 3}, e \in {PageError, PageTimeout, Cancelled}}
        \cup {[at |-> k, raises |-> Cancelled] : k \in {2, 4}}

\* the page as one send_message call meets it, up to the submit
DispatchPages ==
    [chat_input : SUBSET (1..NumChatInput),
     send_button : SUBSET (1..NumSendButton),
     fault : DispatchFaults]

\* a variant that goes on without a chat input
InputNeverMissing(element) == FALSE

\* browser.py 83-84: raise RuntimeError when no chat input was found
InputMissing(element) == element = None

\* a variant that clicks and presses Enter as well
ClickAndPress(button) == <<"click", "press">>

\* browser.py 99-103: click the send button, or press Enter on the input
Submit(button) == IF button # None THEN <<"click">> ELSE <<"press">>

\* browser.py 70-110: find the input, fill it, find the send button, submit.
\* acts lists the page actions carried out.
Dispatch(page) ==
    LET inp == Locate(NumChatInput, page.chat_input)
        snd == Locate(NumSendButton, page.send_button)
        f == page.fault
        Raise(e, as) == [raised |-> e, input_field |-> None,
                         send_button |-> None, acts |-> as]
    IN  IF InputMissing(inp.element) THEN Raise(NoChatInput, <<>>)
        ELSE IF f.at = 1 THEN Raise(f.raises, <<>>)
        ELSE IF f.at \in {2, 3} THEN Raise(f.raises, <<"fill">>)
        ELSE IF f.at = 4
        THEN Raise(f.raises, <<"fill">> \o Submit(snd.element))
        ELSE [raised |-> "none", input_field |-> inp.element,
              send_button |-> snd.element,
              acts |-> <<"fill">> \o Submit(snd.element)]

\* browser.py 118-123: a Playwright timeout becomes TimeoutError, anything
\* else is raised again as it is
SendMessageRaises(e) == IF e = PageTimeout THEN NoResponse ELSE e

\* the awaits of _wait_for_response after the selector loop, in order:
\* 1 the first inner_text, 2 sleep(2), 3 the second inner_text, 4 sleep(5),
\* 5 the third inner_text; at most one of them raises, ending the call
ReadFaults ==
    {[at |-> 0, raises |-> "none"]}
        \cup {[at |-> k, raises |-> e] :
                k \in {1, 3, 5}, e \in {PageError, PageTimeout, Cancelled}}
        \cup {[at |-> k, raises |-> Cancelled] : k \in {2, 4}}

\* the inner_text calls that return before the fault raises
ReadsBefore(f) ==
    CASE f.at = 0 -> 3
      [] f.at = 1 -> 0
      [] f.at \in {2, 3} -> 1
      [] OTHER -> 2

\* the snapshots a page goes through, one more than is ever read
SnapshotPages == [texts : [1..(NumReads + 1) -> Texts], fault : ReadFaults]

\* the page as _wait_for_response reads it: texts[n] is what the n-th
\* inner_text call returns; a text behind the fault is never read and is
\* left at 1
ReadPages ==
    { p \in [texts : [1..NumReads -> Texts], fault : ReadFaults] :
        \A n \in 1..NumReads : n > ReadsBefore(p.fault) => p.texts[n] = 1 }

\* browser.py 168: the text is still changing
StillChanging(response, new_text) == new_text # response

\* browser.py 153-173: the text of the page body when no element was found,
\* else the element's text, read again after 2 s and, when it changed, once
\* more after 5 s
ReadResponse(element, page) ==
    LET t == page.texts
        f == page.fault
        Raise(rs) == [raised |-> f.raises, reads |-> rs, text |-> None]
        Give(rs, x) == [raised |-> "none", reads |-> rs, text |-> x]
    IN  IF f.at = 1 THEN Raise(<<>>)
        ELSE IF element = None THEN Give(<<t[1]>>, t[1])
        ELSE IF f.at \in {2, 3} THEN Raise(<<t[1]>>)
        ELSE IF ~StillChanging(t[1], t[2]) THEN Give(<<t[1], t[2]>>, t[1])
        ELSE IF f.at \in {4, 5} THEN Raise(<<t[1], t[2]>>)
        ELSE Give(<<t[1], t[2], t[3]>>, t[3])

(* --------------------------- run_conversation ------------------------- *)

\* an exception leaves __aenter__: the with body and __aexit__ do not run
EnterRaises(causes) ==
    /\ exc' \in causes
    /\ rpc' = "raised"
    /\ UNCHANGED <<convVars, j, results, browsers, sendVars>>

\* browser.py 34: async_playwright().start()
EnterStart ==
    /\ rpc = "enter"
    /\ \/ /\ rpc' = "launch"
          /\ UNCHANGED <<convVars, j, results, exc, browsers, sendVars>>
       \/ EnterRaises({PageError, Cancelled})

\* a variant in which every conversation uses the browser of the first
LaunchedShared(bs, k) == [bs EXCEPT ![1] = "open"]

\* browser.py 35, 197: the browser of the DemeterAIBrowser made for
\* conversation k is launched
Launched(bs, k) == [bs EXCEPT ![k] = "open"]

\* browser.py 35: chromium.launch
EnterLaunch ==
    /\ rpc = "launch"
    /\ \/ /\ browsers' = Launched(browsers, i)
          /\ rpc' = "new_page"
          /\ UNCHANGED <<convVars, j, results, exc, sendVars>>
       \/ EnterRaises({PageError, Cancelled})

\* browser.py 36: browser.new_page
EnterNewPage ==
    /\ rpc = "new_page"
    /\ \/ /\ rpc' = "goto"
          /\ UNCHANGED <<convVars, j, results, exc, browsers, sendVars>>
       \/ EnterRaises({PageError, Cancelled})

\* browser.py 37: page.goto(url)
EnterGoto ==
    /\ rpc = "goto"
    /\ \/ /\ rpc' = "settle"
          /\ UNCHANGED <<convVars, j, results, exc, browsers, sendVars>>
       \/ EnterRaises({PageError, PageTimeout, Cancelled})

\* browser.py 41-42, 198: sleep(3), then the with body starts
EnterSettle ==
    /\ rpc = "settle"
    /\ \/ /\ rpc' = "loop"
          /\ j' = 1
          /\ UNCHANGED <<convVars, results, exc, browsers, sendVars>>
       \/ EnterRaises({Cancelled})

\* the send_message call is over
ResetSend ==
    /\ input_field' = None
    /\ send_button' = None
    /\ response_element' = None
    /\ acts' = <<>>
    /\ response_text' = None

\* a variant that stays at the exchange it was at
SameIndex(k) == k

\* browser.py 198: the for loop goes on to the exchange after exchange k
NextIndex(k) == k + 1

\* a variant that skips no exchange
NeverSkipped(question) == FALSE

\* browser.py 199-202: `if not question`: an empty or missing question
Skipped(question) == question = EmptyQuestion

\* browser.py 198-205: the next exchange; one with no question is skipped
NextExchange ==
    /\ rpc = "loop"
    /\ IF j > Len(exchanges)
       THEN rpc' = "exit" /\ j' = j
       ELSE IF Skipped(exchanges[j].question)
       THEN rpc' = "loop" /\ j' = NextIndex(j)
       ELSE rpc' = "send" /\ j' = j
    /\ UNCHANGED <<convVars, results, exc, browsers, sendVars>>

\* a variant that sends the question again when send_message raised
HandlerRetries(e) == "send"

\* a variant in which no exception is caught by run_conversation
HandlerLeaves(e) == "exit"

\* where an exception raised inside send_message goes: an Exception is
\* caught by run_conversation (214), an interrupt leaves the with block
Handler(e) == IF e = Cancelled THEN "exit" ELSE "errored"

AfterRaise(e) ==
    /\ exc' = SendMessageRaises(e)
    /\ rpc' = Handler(e)

\* browser.py 66-110: send_message up to the call of _wait_for_response
SendDispatch ==
    /\ rpc = "send"
    /\ \E page \in DispatchPages :
         LET d == Dispatch(page)
         IN  /\ input_field' = d.input_field
             /\ send_button' = d.send_button
             /\ acts' = d.acts
             /\ IF d.raised = "none"
                THEN rpc' = "await" /\ exc' = exc
                ELSE AfterRaise(d.raised)
    /\ UNCHANGED <<convVars, j, results, browsers, response_element,
                   response_text>>

\* browser.py 133-151: sleep(3), then look for the response element; the
\* locals of the dispatch are not used again
WaitLocate ==
    /\ rpc = "await"
    /\ \/ \E resolves \in SUBSET (1..NumResponse) :
            LET r == Locate(NumResponse, resolves)
            IN  /\ response_element' = r.element
                /\ rpc' = "read"
                /\ exc' = exc
       \/ /\ AfterRaise(Cancelled)
          /\ UNCHANGED response_element
    /\ input_field' = None
    /\ send_button' = None
    /\ acts' = <<>>
    /\ UNCHANGED <<convVars, j, results, browsers, response_text>>

\* browser.py 153-173, 115-123: read the response; send_message returns it
\* or raises
WaitRead ==
    /\ rpc = "read"
    /\ \E page \in ReadPages :
         LET r == ReadResponse(response_element, page)
         IN  /\ response_text' = r.text
             /\ IF r.raised = "none"
                THEN rpc' = "captured" /\ exc' = exc
                ELSE AfterRaise(r.raised)
    /\ response_element' = None
    /\ UNCHANGED <<convVars, j, results, browsers, input_field, send_button,
                   acts>>

\* browser.py 206-209: the exchange of a response
Exchange(question, response) ==
    [question |-> question, response |-> [kind |-> "text", text |-> response]]

\* a variant that records the failure without its question
MarkerWithoutQuestion(question, e) ==
    [question |-> EmptyQuestion, response |-> [kind |-> "ERROR", cause |-> e]]

\* browser.py 216-219: the exchange of a failure, "[ERROR: <cause>]"
ErrorExchange(question, e) ==
    [question |-> question, response |-> [kind |-> "ERROR", cause |-> e]]

\* browser.py 205-209: the response is recorded
RecordResponse ==
    /\ rpc = "captured"
    /\ results' = Append(results,
                         Exchange(exchanges[j].question, response_text))
    /\ rpc' = "delay"
    /\ ResetSend
    /\ UNCHANGED <<convVars, j, exc, browsers>>

\* browser.py 212: sleep(2) after a recorded response
Delay ==
    /\ rpc = "delay"
    /\ \/ /\ rpc' = "loop"
          /\ j' = NextIndex(j)
          /\ exc' = exc
       \/ /\ rpc' = "exit"
          /\ exc' = Cancelled
          /\ j' = j
    /\ UNCHANGED <<convVars, results, browsers, sendVars>>

\* browser.py 214-219: except Exception: the error marker is recorded
RecordError ==
    /\ rpc = "errored"
    /\ results' = Append(results, ErrorExchange(exchanges[j].question, exc))
    /\ exc' = "none"
    /\ rpc' = "loop"
    /\ j' = NextIndex(j)
    /\ ResetSend
    /\ UNCHANGED <<convVars, browsers>>

\* a variant that closes nothing
LeftOpen(bs, k) == bs

\* browser.py 46-47: self.browser.close()
Closed(bs, k) == [bs EXCEPT ![k] = "closed"]

\* browser.py 44-50, 221: __aexit__ closes the browser; run_conversation
\* returns results, or the exception in flight goes on
Exit ==
    /\ rpc = "exit"
    /\ browsers' = Closed(browsers, i)
    /\ rpc' = IF exc = "none" THEN "returned" ELSE "raised"
    /\ ResetSend
    /\ UNCHANGED <<convVars, j, results, exc>>

Next ==
    \/ ReadConfig
    \/ StartConversation
    \/ AppendTranscript
    \/ AppendFailed
    \/ Interrupted
    \/ Return
    \/ EnterStart
    \/ EnterLaunch
    \/ EnterNewPage
    \/ EnterGoto
    \/ EnterSettle
    \/ NextExchange
    \/ SendDispatch
    \/ WaitLocate
    \/ WaitRead
    \/ RecordResponse
    \/ Delay
    \/ RecordError
    \/ Exit

Spec == Init /\ [][Next]_vars

\* interrogate is one thread of control that runs on while it has a step to
\* take: asyncio.run drives each conversation to its end
FairSpec == Spec /\ WF_vars(Next)

(* ------------------- the page functions on their own ------------------ *)

\* a selector loop over the n candidates of a role
LocateCalls ==
    UNION { { [op |-> "locate", n |-> n, resolves |-> r, done |-> FALSE] :
                r \in SUBSET (1..n) } :
            n \in {NumChatInput, NumSendButton, NumResponse} }

\* send_message up to its submit
DispatchCalls ==
    { [op |-> "dispatch", page |-> p, done |-> FALSE] : p \in DispatchPages }

\* _wait_for_response
WaitCalls ==
    { [op |-> "wait", resolves |-> r, page |-> p, done |-> FALSE] :
        r \in SUBSET (1..NumResponse), p \in SnapshotPages }

InitCalls ==
    /\ call \in LocateCalls \cup DispatchCalls \cup WaitCalls
    /\ conversation_plans = <<>>
    /\ config = [complete |-> FALSE, max_conversations_per_run |-> 0,
                 max_exchanges_per_conversation |-> 0]
    /\ NotStarted
    /\ main = NoMain

\* browser.py 75-81, 91-97, 144-151: the selector loop runs
ApplyLocate ==
    /\ call.op = "locate"
    /\ ~call.done
    /\ call' = [op |-> "locate", n |-> call.n, resolves |-> call.resolves,
                done |-> TRUE, result |-> Locate(call.n, call.resolves)]
    /\ UNCHANGED <<inputVars, interrogateVars, rpc, j, results, exc,
                   browsers, sendVars>>

\* browser.py 66-110: send_message runs up to its submit
ApplyDispatch ==
    /\ call.op = "dispatch"
    /\ ~call.done
    /\ call' = [op |-> "dispatch", page |-> call.page, done |-> TRUE,
                result |-> Dispatch(call.page)]
    /\ UNCHANGED <<inputVars, interrogateVars, rpc, j, results, exc,
                   browsers, sendVars>>

\* browser.py 125-173: _wait_for_response runs
WaitForResponse(resolves, page) ==
    ReadResponse(Locate(NumResponse, resolves).element, page)

ApplyWait ==
    /\ call.op = "wait"
    /\ ~call.done
    /\ call' = [op |-> "wait", resolves |-> call.resolves,
                page |-> call.page, done |-> TRUE,
                result |-> WaitForResponse(call.resolves, call.page)]
    /\ UNCHANGED <<inputVars, interrogateVars, rpc, j, results, exc,
                   browsers, sendVars>>

NextCalls ==
    \/ ApplyLocate
    \/ ApplyDispatch
    \/ ApplyWait

SpecCalls == InitCalls /\ [][NextCalls]_vars

(* ------------------------- orchestrator main -------------------------- *)

\* what a step of main outside interrogate leaves alone
mainFrame == <<config, conversation_plans, ipc, plans_to_run, i, exchanges,
               rpc, j, results, exc, browsers, sendVars, call>>

\* a plan of one question and one follow-up, for topic k
PlanFor(k) == [topic |-> k, opening_question |-> 1, follow_ups |-> <<2>>]

\* the transcripts interrogate can return for the k-th plan: answered, the
\* first exchange failed, the first failed and the second answered, every
\* question empty, the conversation raised
TranscriptsFor(k) ==
    {Transcript(k - 1, PlanFor(k), <<Exchange(1, 1)>>),
     Transcript(k - 1, PlanFor(k), <<ErrorExchange(1, NoChatInput)>>),
     Transcript(k - 1, PlanFor(k),
                <<ErrorExchange(1, NoResponse), Exchange(2, 1)>>),
     Transcript(k - 1, PlanFor(k), <<>>),
     FailedTranscript(k - 1, PlanFor(k), PageError)}

\* the lists interrogate can return
ReturnedLists ==
    UNION { { ts \in [1..n -> UNION {TranscriptsFor(k) : k \in 1..n}] :
                \A k \in 1..n : ts[k] \in TranscriptsFor(k) } :
            n \in 0..MaxPlans }

\* orchestrator.py 120-121: the condition of the gate on one transcript;
\* [0] of an empty list of exchanges raises IndexError
Invalid(t) ==
    IF t.conversation_id.failed THEN "True"
    ELSE IF t.exchanges = <<>> THEN "IndexError"
    ELSE IF t.exchanges[1].response.kind = "ERROR" THEN "True"
    ELSE "False"

\* orchestrator.py 119-123: all(...), from the first transcript on, stopping
\* at the first that is not invalid
RECURSIVE AllInvalid(_)
AllInvalid(ts) ==
    IF ts = <<>> THEN "True"
    ELSE LET r == Invalid(Head(ts))
         IN  IF r = "True" THEN AllInvalid(Tail(ts)) ELSE r

\* orchestrator.py 119: not transcripts or all(...)
NoValidTranscripts(ts) == IF ts = <<>> THEN "True" ELSE AllInvalid(ts)

InitMain ==
    /\ conversation_plans = <<>>
    /\ config = [complete |-> TRUE, max_conversations_per_run |-> MaxLimit,
                 max_exchanges_per_conversation |-> MaxLimit]
    /\ NotStarted
    /\ call = NoCall
    /\ main = [pc |-> "setup", ran |-> <<>>]

\* orchestrator.py 159-164: an exception in a phase ends the run: sys.exit(1)
PhaseRaises ==
    /\ main' = [pc |-> "exit", ran |-> main.ran, at |-> main.pc]
    /\ UNCHANGED transcripts

\* a phase is over: the next begins
PhaseDone(phase, next) ==
    /\ main' = [pc |-> next, ran |-> Append(main.ran, phase)]
    /\ UNCHANGED transcripts

\* orchestrator.py 73-87: configuration, coverage manifest, recent logs
LoadConfiguration ==
    /\ main.pc = "setup"
    /\ \/ main' = [pc |-> "scan", ran |-> main.ran] /\ UNCHANGED transcripts
       \/ PhaseRaises
    /\ UNCHANGED mainFrame

\* orchestrator.py 89-92: scan_news
ScanNews ==
    /\ main.pc = "scan"
    /\ (PhaseDone("scan", "plan") \/ PhaseRaises)
    /\ UNCHANGED mainFrame

\* orchestrator.py 94-111: generate_questions
GenerateQuestions ==
    /\ main.pc = "plan"
    /\ (PhaseDone("plan", "interrogate") \/ PhaseRaises)
    /\ UNCHANGED mainFrame

\* orchestrator.py 113-116: interrogate returns its transcripts, or raises
Interrogate ==
    /\ main.pc = "interrogate"
    /\ \/ /\ transcripts' \in ReturnedLists
          /\ main' = [pc |-> "gate", ran |-> Append(main.ran, "interrogate")]
       \/ PhaseRaises
    /\ UNCHANGED mainFrame

\* orchestrator.py 118-125: with no valid transcript main returns
CheckTranscripts ==
    /\ main.pc = "gate"
    /\ LET none == NoValidTranscripts(transcripts)
       IN  CASE none = "True" -> main' = [pc |-> "returned", ran |-> main.ran]
             [] none = "False" -> main' = [pc |-> "assess", ran |-> main.ran]
             [] OTHER -> main' = [pc |-> "exit", ran |-> main.ran,
                                  at |-> main.pc]
    /\ UNCHANGED transcripts
    /\ UNCHANGED mainFrame

\* orchestrator.py 127-130: assess_responses
AssessResponses ==
    /\ main.pc = "assess"
    /\ (PhaseDone("assess", "generate") \/ PhaseRaises)
    /\ UNCHANGED mainFrame

\* orchestrator.py 132-135: generate
Generate ==
    /\ main.pc = "generate"
    /\ (PhaseDone("generate", "publish") \/ PhaseRaises)
    /\ UNCHANGED mainFrame

\* orchestrator.py 137-140: publish
Publish ==
    /\ main.pc = "publish"
    /\ (PhaseDone("publish", "log") \/ PhaseRaises)
    /\ UNCHANGED mainFrame

\* orchestrator.py 142-157: log_run, then main is over
LogRun ==
    /\ main.pc = "log"
    /\ (PhaseDone("log", "returned") \/ PhaseRaises)
    /\ UNCHANGED mainFrame

\* orchestrator.py 89-145: the phases of a run, in the order main calls them
Phases == <<"scan", "plan", "interrogate", "assess", "generate", "publish",
            "log">>

NextMain ==
    \/ LoadConfiguration
    \/ ScanNews
    \/ GenerateQuestions
    \/ Interrogate
    \/ CheckTranscripts
    \/ AssessResponses
    \/ Generate
    \/ Publish
    \/ LogRun

SpecMain == InitMain /\ [][NextMain]_vars

(* ----------------------------- properties ----------------------------- *)

\* C1: no execution of run_conversation ends, by returning or by raising,
\* with the browser that was launched for it still open.
C1_BrowserClosedOnEveryExit ==
    rpc \in {"returned", "raised"} => browsers[i] # "open"

\* C2: every Exception raised while a question is sent (no chat input, a
\* failing page call, a timeout of the response) is caught by
\* run_conversation and recorded as the error marker of that question,
\* carrying the cause, and the conversation goes on with the next question;
\* an Exception leaves run_conversation only from the opening of the browser.
C2_ExchangeFailureRecorded ==
    [][/\ (rpc \in {"send", "await", "read"} /\ exc' # exc
              => IF exc' = Cancelled THEN rpc' = "exit"
                 ELSE rpc' = "errored" /\ exc' # "none")
       /\ (rpc = "errored"
              => /\ results' = Append(results,
                                      ErrorExchange(exchanges[j].question, exc))
                 /\ rpc' = "loop"
                 /\ exc' = "none")
       /\ (rpc' = "raised" /\ exc' # Cancelled => j' = 0 /\ results' = <<>>)
      ]_vars

\* run_conversation returned a list that holds an error marker
C2_ErrorMarkerReturned ==
    /\ rpc = "returned"
    /\ \E k \in 1..Len(results) : results[k].response.kind = "ERROR"

\* C3: a conversation that raises an Exception does not make interrogate
\* raise (only a missing configuration key or an interrupt does); it gets a
\* transcript marked as failed with an error field, every conversation that
\* returned gets an unmarked transcript without one, and all the plans to run
\* are run.
C3_FailureDoesNotAbortRun ==
    /\ (ipc = "raised" => exc \in {"KeyError", Cancelled})
    /\ \A k \in 1..Len(transcripts) :
          LET t == transcripts[k]
          IN  /\ t.topic = plans_to_run[k].topic
              /\ t.conversation_id.index = k - 1
              /\ t.conversation_id.failed = (browsers[k] # "closed")
              /\ ("error" \in DOMAIN t) = t.conversation_id.failed
    /\ (ipc = "returned" => Len(transcripts) = Len(plans_to_run))

\* three conversations were run, the second failed, the others did not
C3_MiddleConversationFailed ==
    /\ ipc = "returned"
    /\ Len(transcripts) = 3
    /\ ~transcripts[1].conversation_id.failed
    /\ transcripts[2].conversation_id.failed
    /\ ~transcripts[3].conversation_id.failed

\* C4, as stated: the list interrogate returns has one transcript for each
\* of the N plans it was handed, the k-th for the k-th plan.
C4_OneTranscriptPerPlan ==
    ipc = "returned" =>
        /\ Len(transcripts) = Len(conversation_plans)
        /\ \A k \in 1..Len(transcripts) :
              transcripts[k].topic = conversation_plans[k].topic

\* C4, amended: the list interrogate returns has min(N, max_conversations_
\* per_run) transcripts, the k-th for the k-th plan it was handed, whether
\* that conversation returned or raised.
C4_OneTranscriptPerPlanRun ==
    ipc = "returned" =>
        /\ Len(transcripts) =
               Min(Len(conversation_plans), config.max_conversations_per_run)
        /\ \A k \in 1..Len(transcripts) :
              transcripts[k].topic = conversation_plans[k].topic

\* three plans were handed over, two were run
C4_PlansCutToLimit ==
    /\ ipc = "returned"
    /\ Len(conversation_plans) = 3
    /\ config.max_conversations_per_run = 2
    /\ Len(transcripts) = 2

\* C5: _wait_for_response returns a text only when the reads it made reached
\* required_stable_reads identical reads in a row; it never returns a text
\* that was still changing.
C5_NoUnstableTextReturned ==
    call.op = "wait" /\ call.done /\ call.result.raised = "none" =>
        LET reads == call.result.reads
        IN  \E n \in 1..Len(reads) :
              /\ n + required_stable_reads - 1 <= Len(reads)
              /\ \A m \in n..(n + required_stable_reads - 1) :
                    reads[m] = reads[n]

\* C6: when the first run of required_stable_reads identical snapshots
\* starts at read n, _wait_for_response returns that value with read
\* n + required_stable_reads - 1, not earlier.
C6_ReturnsAtFirstStableRun ==
    call.op = "wait" /\ call.done /\ call.page.fault.at = 0 =>
        LET texts == call.page.texts
            last(n) == n + required_stable_reads - 1
            stable(n) == /\ last(n) <= NumReads + 1
                         /\ \A m \in n..last(n) : texts[m] = texts[n]
        IN  \A n \in 1..(NumReads + 1) :
              stable(n) /\ (\A m \in 1..(n - 1) : ~stable(m))
                  => /\ call.result.raised = "none"
                     /\ call.result.text = texts[n]
                     /\ Len(call.result.reads) = last(n)

\* C7: the exchanges built for a plan with F follow-ups under the limit M
\* are the opening question and then the first min(F, M-1) follow-ups, in
\* their order: min(F, M-1) + 1 exchanges.
C7_ExchangeListLength ==
    ipc = "run" =>
        LET plan == plans_to_run[i]
            kept == Min(Len(plan.follow_ups),
                        config.max_exchanges_per_conversation - 1)
        IN  /\ Len(exchanges) = kept + 1
            /\ exchanges[1].question = plan.opening_question
            /\ \A k \in 1..kept :
                  exchanges[k + 1].question = plan.follow_ups[k]

\* C8: no transcript, and no list of results of a running conversation,
\* has more exchanges than max_exchanges_per_conversation.
C8_ExchangesWithinLimit ==
    /\ \A k \in 1..Len(transcripts) :
          Len(transcripts[k].exchanges)
              <= config.max_exchanges_per_conversation
    /\ (ipc = "run"
          => Len(results) <= config.max_exchanges_per_conversation)

\* C9: a selector loop with a candidate that resolves returns the first
\* candidate in list order that resolves, and tries no candidate after it.
C9_FirstResolvingCandidate ==
    call.op = "locate" /\ call.done /\ call.resolves # {} =>
        /\ call.result.element \in call.resolves
        /\ \A c \in call.resolves : call.result.element <= c
        /\ call.result.tried = call.result.element

\* the first candidate did not resolve, the second and a later one did
C9_LaterCandidateResolvesToo ==
    /\ call.op = "locate"
    /\ call.done
    /\ 1 \notin call.resolves
    /\ Cardinality(call.resolves) >= 2
    /\ call.result.element = 2

C11_ResultsFollowQuestions ==
    ipc = "run" =>
        LET asked(exs) == SelectSeq(exs, LAMBDA x : x.question # EmptyQuestion)
            all == asked(exchanges)
        IN  /\ Len(results) <= Len(all)
            /\ \A k \in 1..Len(results) :
                  results[k].question = all[k].question
            /\ (rpc = "send" =>
                  Len(results) = Len(asked(SubSeq(exchanges, 1, j - 1))))
            /\ (rpc = "returned" => Len(results) = Len(all))

\* three questions were asked, the second failed, the third was answered
C11_AnsweredAfterFailure ==
    /\ rpc = "returned"
    /\ Len(results) = 3
    /\ results[2].response.kind = "ERROR"
    /\ results[3].response.kind = "text"

\* C12: the delay between exchanges follows every exchange, whatever its
\* outcome: when an exchange has ended, answered or failed, and another
\* question is still to be sent, the next thing run_conversation does is the
\* delay.
C12_DelayAfterEveryExchange ==
    [][(/\ rpc \in {"captured", "errored"}
        /\ \E k \in (j + 1)..Len(exchanges) :
             exchanges[k].question # EmptyQuestion)
       => rpc' = "delay"]_vars

\* C13: when the opening of the browser for a conversation raises an
\* Exception, the transcript appended for it has the failure suffix in its
\* conversation_id, the topic of the plan, an error field with the cause and
\* one exchange: the opening question of the plan with a failure marker that
\* holds the cause.
C13_FailureStub ==
    [][(ipc = "run" /\ rpc = "raised" /\ exc # Cancelled)
       => /\ j = 0
          /\ exc \in {PageError, PageTimeout}
          /\ transcripts' =
               Append(transcripts,
                      [conversation_id |-> [index |-> i - 1, failed |-> TRUE],
                       topic |-> plans_to_run[i].topic,
                       exchanges |->
                           <<[question |-> plans_to_run[i].opening_question,
                              response |-> [kind |-> "FAILED",
                                            cause |-> exc]]>>,
                       error |-> exc])]_vars

\* the navigation of the second conversation timed out; its stub is recorded
C13_StubRecorded ==
    /\ Len(transcripts) >= 2
    /\ browsers[2] = "open"
    /\ transcripts[2].conversation_id.failed
    /\ transcripts[2].error = PageTimeout

\* C14: no two transcripts of a run have the same conversation_id, whatever
\* the mix of conversations that returned and that raised, all of them
\* finishing within one clock second.
C14_ConversationIdsDiffer ==
    \A k, l \in 1..Len(transcripts) :
        k # l =>
            transcripts[k].conversation_id # transcripts[l].conversation_id

\* three conversations were recorded: two returned, one raised
C14_ThreeMixedTranscripts ==
    /\ Len(transcripts) = 3
    /\ ~transcripts[1].conversation_id.failed
    /\ ~transcripts[2].conversation_id.failed
    /\ transcripts[3].conversation_id.failed

\* C15: with a configuration that lacks a key interrogate reads, interrogate
\* raises (KeyError) before any conversation is started: no browser is ever
\* launched and no transcript is recorded.
C15_AbortBeforeAnySession ==
    ~config.complete =>
        /\ ipc \in {"start", "raised"}
        /\ (ipc = "raised" => exc = "KeyError")
        /\ rpc = "idle"
        /\ browsers = NoBrowsers
        /\ transcripts = <<>>

\* interrogate raised on an incomplete configuration, with plans to run
C15_AbortedOnConfiguration ==
    /\ ~config.complete
    /\ conversation_plans # <<>>
    /\ ipc = "raised"
    /\ exc = "KeyError"

\* C16: at most one browser is open at any moment: no browser is launched
\* for a conversation while one launched for an earlier conversation is
\* still open.
C16_OneBrowserAtATime ==
    Cardinality({k \in 1..MaxPlans : browsers[k] = "open"}) <= 1

\* C17: a conversation follows its state machine: the browser is opened
\* step by step or the opening fails and the conversation is over; a
\* question is sent only from the loop of an open session, the response is
\* waited for only after a send, an exchange ends captured or errored and
\* the loop goes on; a session that was opened is closed when
\* run_conversation is over, and once over a conversation does nothing more
\* and a closed browser stays closed.
C17_ConversationStateMachine ==
    [][/\ \/ rpc' = rpc
          \/ <<rpc, rpc'>> \in
               {<<"idle", "enter">>, <<"enter", "launch">>,
                <<"launch", "new_page">>, <<"new_page", "goto">>,
                <<"goto", "settle">>, <<"settle", "loop">>,
                <<"loop", "send">>, <<"loop", "exit">>,
                <<"send", "await">>, <<"send", "errored">>,
                <<"send", "exit">>, <<"await", "read">>,
                <<"await", "exit">>, <<"read", "captured">>,
                <<"read", "errored">>, <<"read", "exit">>,
                <<"captured", "delay">>, <<"delay", "loop">>,
                <<"delay", "exit">>, <<"errored", "loop">>,
                <<"exit", "returned">>, <<"exit", "raised">>,
                <<"returned", "idle">>, <<"raised", "idle">>}
          \/ /\ rpc \in {"enter", "launch", "new_page", "goto", "settle"}
             /\ rpc' = "raised"
             /\ j' = 0
       /\ (rpc' \in {"loop", "send", "await", "read", "captured", "errored",
                     "delay"}
             => j' >= 1 /\ browsers'[i'] = "open")
       /\ (rpc' \in {"returned", "raised"} /\ j' >= 1
             => browsers'[i'] = "closed")
       /\ (rpc \in {"returned", "raised"} => rpc' = "idle" /\ i' >= i)
       /\ \A k \in 1..MaxPlans :
            browsers[k] = "closed" => browsers'[k] = "closed"
      ]_vars

\* a conversation with an answered and a failed exchange is over, its
\* browser closed, and the next conversation has been started
C17_ClosedAfterExchanges ==
    /\ i = 2
    /\ rpc = "enter"
    /\ browsers[1] = "closed"
    /\ \E k, l \in 1..Len(transcripts[1].exchanges) :
         /\ transcripts[1].exchanges[k].response.kind = "text"
         /\ transcripts[1].exchanges[l].response.kind = "ERROR"

\* C18: a send_message call that finds the chat input submits exactly once
\* and only after the fill: it clicks the first send button that resolves,
\* or presses Enter on the input when none resolves; never both, never a
\* submit before the fill, and never neither unless the fill, the settle
\* delay or the submit itself raises.
C18_OneSubmitAfterFill ==
    call.op = "dispatch" /\ call.done /\ call.page.chat_input # {} =>
        LET r == call.result
            p == call.page
            submit == IF p.send_button = {} THEN "press" ELSE "click"
        IN  /\ r.acts \in {<<>>, <<"fill">>, <<"fill", submit>>}
            /\ (p.fault.at \in {0, 4} => r.acts = <<"fill", submit>>)
            /\ (r.raised = "none" =>
                  /\ r.input_field \in p.chat_input
                  /\ IF p.send_button = {} THEN r.send_button = None
                     ELSE /\ r.send_button \in p.send_button
                          /\ \A c \in p.send_button : r.send_button <= c)

\* no send button resolved and the call submitted with Enter
C18_SubmittedWithEnter ==
    /\ call.op = "dispatch"
    /\ call.done
    /\ call.page.send_button = {}
    /\ call.result.raised = "none"
    /\ call.result.acts = <<"fill", "press">>

\* C19: the transcript list changes only by the append of one transcript
\* when a conversation is over: the results run_conversation returned, or
\* the failure stub when it raised; while a conversation is running the list
\* stays as it is, and nothing of the results of a conversation that raised
\* gets into it.
C19_AppendOnlyWhenOver ==
    [][transcripts' # transcripts =>
         /\ ipc = "run"
         /\ rpc \in {"returned", "raised"}
         /\ Len(transcripts') = Len(transcripts) + 1
         /\ SubSeq(transcripts', 1, Len(transcripts)) = transcripts
         /\ LET t == transcripts'[Len(transcripts')]
            IN  IF rpc = "returned"
                THEN /\ ~t.conversation_id.failed
                     /\ t.exchanges = results
                ELSE /\ t.conversation_id.failed
                     /\ Len(t.exchanges) = 1
                     /\ t.exchanges[1].response.kind = "FAILED"
      ]_vars

\* the second conversation has an exchange recorded and is still running;
\* the list holds the transcript of the first only
C19_SecondConversationRunning ==
    /\ ipc = "run"
    /\ i = 2
    /\ rpc = "send"
    /\ Len(results) >= 1
    /\ Len(transcripts) = 1

\* C20: nothing is tried again: within a conversation the loop only moves
\* forward, a question is sent only from the loop and every exchange that
\* ended, answered or failed, moves the loop to the next question; a browser
\* is opened for a conversation only if none was opened for it before, and a
\* conversation that is over, returned or raised, is followed by the next
\* plan.
C20_NoRetry ==
    [][/\ (rpc' = "send" /\ rpc # "send" => rpc = "loop" /\ j' = j)
       /\ (rpc \in {"errored", "delay"} /\ rpc' = "loop" => j' = j + 1)
       /\ (rpc \notin {"idle", "returned", "raised"} /\ rpc' # "idle"
             => j' >= j /\ i' = i)
       /\ (rpc' = "enter" /\ rpc # "enter"
             => /\ rpc = "idle"
                /\ browsers[i'] = "none"
                /\ Len(transcripts) = i' - 1)
       /\ (rpc \in {"returned", "raised"} /\ ipc' = "loop" => i' = i + 1)
       /\ i' >= i
      ]_vars

\* the first conversation failed to open and the second is run; its first
\* question failed and its second is sent
C20_GoneOnAfterFailures ==
    /\ i = 2
    /\ transcripts[1].conversation_id.failed
    /\ rpc = "send"
    /\ j = 2
    /\ Len(results) = 1
    /\ results[1].response.kind = "ERROR"

\* C21: a browser is opened once for a conversation, by that conversation
\* and not again; between the exchanges of a conversation no browser is
\* opened or closed, and every question is sent with the browser of its own
\* conversation open: no conversation uses the browser of another.
C21_OneSessionPerConversation ==
    [][/\ \A k \in 1..MaxPlans :
            browsers'[k] = "open" /\ browsers[k] # "open"
                => k = i /\ rpc = "launch" /\ browsers[k] = "none"
       /\ (rpc \in {"loop", "send", "await", "read", "captured", "errored",
                    "delay"}
             => browsers' = browsers /\ i' = i)
       /\ (rpc' = "send" => browsers'[i'] = "open")
      ]_vars

\* the second conversation sends its second question with its own browser
\* open, after the browser of the first was closed
C21_SecondSessionInUse ==
    /\ i = 2
    /\ rpc = "send"
    /\ j = 2
    /\ browsers[1] = "closed"
    /\ browsers[2] = "open"

C23_TimeoutGovernsExchange ==
    (/\ call.op = "wait"
     /\ call.done
     /\ call.page.fault.at = 0
     /\ \A n \in 1..NumReads : call.page.texts[n] # call.page.texts[n + 1])
    => /\ SendMessageRaises(call.result.raised) = NoResponse
       /\ call.result.text = None

\* C24: an exchange with an empty question is passed over: nothing is sent
\* and nothing recorded for it; the list run_conversation returns has one
\* entry, with a question and a response, for each non-empty question and no
\* other, and interrogate records it as it is in an unmarked transcript,
\* empty if every question was empty.
C24_EmptyQuestionsSkipped ==
    [][/\ (rpc = "loop" /\ j <= Len(exchanges)
             /\ exchanges[j].question = EmptyQuestion
            => /\ rpc' = "loop"
               /\ j' = j + 1
               /\ results' = results
               /\ acts' = <<>>)
       /\ (rpc' = "returned" =>
             LET asked == SelectSeq(exchanges',
                                    LAMBDA x : x.question # EmptyQuestion)
             IN  /\ Len(results') = Len(asked)
                 /\ \A k \in 1..Len(asked) :
                      /\ results'[k].question = asked[k].question
                      /\ DOMAIN results'[k] = {"question", "response"})
       /\ (rpc = "returned" /\ transcripts' # transcripts =>
             LET t == transcripts'[Len(transcripts')]
             IN  ~t.conversation_id.failed /\ t.exchanges = results)
      ]_vars

\* a conversation whose only question was empty returned, and its
\* transcript is unmarked and has no exchange
C24_EmptyTranscript ==
    /\ Len(transcripts) >= 1
    /\ ~transcripts[1].conversation_id.failed
    /\ transcripts[1].exchanges = <<>>
    /\ browsers[1] = "closed"

\* C25: interrogate runs the first min(N, max_conversations_per_run) of its
\* N plans, in order, and no other: no conversation is ever started for a
\* plan beyond the limit, and when interrogate returns it has started that
\* many conversations and recorded that many transcripts.
C25_OnlyPlansWithinLimit ==
    LET limit == Min(Len(conversation_plans),
                     config.max_conversations_per_run)
    IN  /\ (ipc \notin {"start", "raised"} \/ exc = Cancelled
              => plans_to_run = SubSeq(conversation_plans, 1, limit))
        /\ i <= limit + 1
        /\ \A k \in 1..MaxPlans : k > limit => browsers[k] = "none"
        /\ (ipc = "returned" => i = limit + 1 /\ Len(transcripts) = limit)

\* three plans and a limit of one: one conversation was run, with a browser,
\* and interrogate returned
C25_OneOfThreeRun ==
    /\ ipc = "returned"
    /\ Len(conversation_plans) = 3
    /\ config.max_conversations_per_run = 1
    /\ browsers[1] = "closed"
    /\ Len(transcripts) = 1

\* C26: main runs its phases in the order scan, plan, interrogate, assess,
\* generate, publish, log, and what follows interrogate depends on the
\* transcripts alone: with a transcript that is neither flagged FAILED nor
\* has an ERROR marker as its first exchange's response the later phases
\* run, and otherwise main returns normally with nothing assessed,
\* generated, published or logged.
C26_PhasesGatedByValidTranscript ==
    LET valid(t) == /\ ~t.conversation_id.failed
                    /\ ~(/\ t.exchanges # <<>>
                         /\ t.exchanges[1].response.kind = "ERROR")
        later == {"assess", "generate", "publish", "log"}
    IN  /\ main.ran = SubSeq(Phases, 1, Len(main.ran))
        /\ (Len(main.ran) >= 3 /\ main.pc # "gate") =>
              IF \E k \in 1..Len(transcripts) : valid(transcripts[k])
              THEN \/ main.pc \in later
                   \/ main.pc = "returned" /\ main.ran = Phases
                   \/ main.pc = "exit" /\ main.at \in later
              ELSE /\ main.pc = "returned"
                   /\ main.ran = SubSeq(Phases, 1, 3)

=============================================================================
